---------------------------- MODULE Spec2Model ----------------------------
(***************************************************************************)
(* simple-upload: the completed-upload handler of src/main.go.             *)
(*                                                                         *)
(* File names are sequences of one-character strings.  The uploads         *)
(* directory is the set of names present in it.  The tusd file store and   *)
(* file locker are created on the same directory (main.go:157-158): an     *)
(* upload with ID x keeps its data in "x", its metadata record in          *)
(* "x.info" and its lock in "x.lock".                                      *)
(***************************************************************************)
EXTENDS Naturals, Sequences, FiniteSets

VARIABLES
    dir,              \* names present in uploadsDir
    state,            \* upload ID -> absent, InProgress, Completed, Terminated
    locked,           \* upload IDs whose lock a request holds
    meta,             \* upload ID -> metadata["filename"] (<<>> when absent)
    CompleteUploads,  \* handler.CompleteUploads: events waiting to be received
    pc,               \* position of the consumer goroutine
    event,            \* the event being handled: [id, filename]
    sanitized,        \* getUniqueFilename's local: the sanitized filename
    i,                \* the counter of getUniqueFilename's loop
    finalFilename,    \* the name getUniqueFilename returned
    log,              \* the last outcome the consumer logged
    finalized,        \* upload ID -> the final names it was renamed to
    nHandled,         \* completion events whose handling has finished
    nRedelivered      \* completion events sent a second time

vars == <<dir, state, locked, meta, CompleteUploads, pc, event, sanitized, i,
          finalFilename,
          log, finalized, nHandled, nRedelivered>>

-----------------------------------------------------------------------------
(* Bounds *)

MaxLen == 4          \* longest client filename enumerated for the pure functions
MaxProbe == 3        \* the loop counter is tracked exactly up to this value
NameMax == 14        \* longest name the file system accepts (stands for NAME_MAX)
MaxRedeliver == 1    \* completion events that may be sent twice

Alphabet == {"a", ".", " ", "/", ":"}

Ids == {<<"a">>, <<"b">>}

-----------------------------------------------------------------------------
(* strings *)

HasPrefixAt(s, k, old) ==
    /\ k + Len(old) - 1 <= Len(s)
    /\ SubSeq(s, k, k + Len(old) - 1) = old

RECURSIVE ReplaceFrom(_, _, _, _)
ReplaceFrom(s, k, old, new) ==
    IF k > Len(s) THEN <<>>
    ELSE IF HasPrefixAt(s, k, old)
         THEN new \o ReplaceFrom(s, k + Len(old), old, new)
         ELSE <<s[k]>> \o ReplaceFrom(s, k + 1, old, new)

\* strings.ReplaceAll: non-overlapping occurrences, left to right
ReplaceAll(s, old, new) == ReplaceFrom(s, 1, old, new)

RECURSIVE TrimLeft(_, _)
TrimLeft(s, cutset) ==
    IF s # <<>> /\ Head(s) \in cutset THEN TrimLeft(Tail(s), cutset) ELSE s

RECURSIVE TrimRight(_, _)
TrimRight(s, cutset) ==
    IF s # <<>> /\ s[Len(s)] \in cutset
    THEN TrimRight(SubSeq(s, 1, Len(s) - 1), cutset)
    ELSE s

\* strings.Trim
Trim(s, cutset) == TrimRight(TrimLeft(s, cutset), cutset)

\* strings.TrimSuffix
TrimSuffix(s, suffix) ==
    IF Len(suffix) <= Len(s) /\ SubSeq(s, Len(s) - Len(suffix) + 1, Len(s)) = suffix
    THEN SubSeq(s, 1, Len(s) - Len(suffix))
    ELSE s

RECURSIVE ExtFrom(_, _)
ExtFrom(path, k) ==
    IF k < 1 \/ path[k] = "/" THEN <<>>
    ELSE IF path[k] = "." THEN SubSeq(path, k, Len(path))
    ELSE ExtFrom(path, k - 1)

\* filepath.Ext: the suffix from the last dot of the last path element
Ext(path) == ExtFrom(path, Len(path))

Digit(d) == <<"0", "1", "2", "3", "4", "5", "6", "7", "8", "9">>[d + 1]

RECURSIVE Itoa(_)
\* the %d verb of fmt.Sprintf
Itoa(n) == IF n < 10 THEN <<Digit(n)>> ELSE Itoa(n \div 10) \o <<Digit(n % 10)>>

-----------------------------------------------------------------------------
(* sanitizeFilename *)

unsafe == << <<"/">>, <<"\\">>, <<".", ".">>, <<":">>, <<"*">>, <<"?">>,
             <<"\"">>, <<"<">>, <<">">>, <<"|">> >>

DefaultName == <<"u", "n", "k", "o", "w", "n", "-", "f", "i", "l", "e">>

RECURSIVE ReplaceUnsafe(_, _)
\* the loop over unsafe, from its k-th entry on (the singleton sets only
\* make the result of each pass a value before the next pass reads it)
ReplaceUnsafe(s, k) ==
    IF k > Len(unsafe) THEN s
    ELSE CHOOSE result \in {ReplaceUnsafe(replaced, k + 1) :
                                replaced \in {ReplaceAll(s, unsafe[k], <<"_">>)}} : TRUE

TrimCutset == {" ", "."}

\* sanitizeFilename without the strings.Trim of line 68
sanitizeFilename_NoTrim(filename) ==
    LET replaced == ReplaceUnsafe(filename, 1)
    IN  IF replaced = <<>> THEN DefaultName ELSE replaced

\* sanitizeFilename without the default name of lines 71-73
sanitizeFilename_NoDefault(filename) ==
    Trim(ReplaceUnsafe(filename, 1), TrimCutset)

sanitizeFilename(filename) ==
    LET trimmed == Trim(ReplaceUnsafe(filename, 1), TrimCutset)
    IN  IF trimmed = <<>> THEN DefaultName ELSE trimmed

-----------------------------------------------------------------------------
(* the file system *)

\* os.Stat on uploadsDir/name: nil for a present name; a name longer than
\* the file system accepts fails with ENAMETOOLONG, any other absent name
\* with ENOENT.
Stat(d, name) ==
    IF Len(name) > NameMax THEN "ENAMETOOLONG"
    ELSE IF name \in d THEN "ok"
    ELSE "ENOENT"

\* os.IsNotExist
IsNotExist(err) == err = "ENOENT"

\* the names the upload engine keeps for upload id
DataFile(id) == id
InfoFile(id) == id \o <<".", "i", "n", "f", "o">>
LockFile(id) == id \o <<".", "l", "o", "c", "k">>

\* what the file store answers for id: an upload is there when its
\* metadata record can be read
InspectExists(d, id) == InfoFile(id) \in d

-----------------------------------------------------------------------------
(* getUniqueFilename *)

\* the counter put after the extension instead of before it
newFilenameOf_AfterExt(name, k) == name \o <<"_">> \o Itoa(k)

\* fmt.Sprintf("%s_%d%s", base, i, ext)
newFilenameOf(name, k) ==
    LET ext  == Ext(name)
        base == TrimSuffix(name, ext)
    IN  base \o <<"_">> \o Itoa(k) \o ext

\* the value standing for a call that never returns
NoReturn == <<"NoReturn">>

RECURSIVE probeLoop(_, _, _)
\* the for loop of lines 92-99 over a directory that does not change.  A
\* check that fails with ENAMETOOLONG is not a not-exist error, so the loop
\* goes on; every later name is at least as long, so it never returns.
probeLoop(d, name, k) ==
    LET newFilename == newFilenameOf(name, k)
        err == Stat(d, newFilename)
    IN  IF IsNotExist(err) THEN newFilename
        ELSE IF err = "ENAMETOOLONG" THEN NoReturn
        ELSE probeLoop(d, name, k + 1)

getUniqueFilename(d, filename) ==
    LET name == sanitizeFilename(filename)
    IN  IF IsNotExist(Stat(d, name)) THEN name
        ELSE probeLoop(d, name, 1)

-----------------------------------------------------------------------------
(* initial state *)

NoEvent == [id |-> <<>>, filename |-> <<>>]

Init ==
    /\ dir = {}
    /\ state = [id \in Ids |-> "absent"]
    /\ locked = {}
    /\ meta = [id \in Ids |-> <<>>]
    /\ CompleteUploads = <<>>
    /\ pc = "recv"
    /\ event = NoEvent
    /\ sanitized = <<>>
    /\ i = 0
    /\ finalFilename = <<>>
    /\ log = "none"
    /\ finalized = [id \in Ids |-> <<>>]
    /\ nHandled = 0
    /\ nRedelivered = 0

-----------------------------------------------------------------------------
(* the pure functions, called on enumerated inputs *)

RECURSIVE NamesUpTo(_)
NamesUpTo(n) ==
    IF n = 0 THEN {<<>>}
    ELSE LET shorter == NamesUpTo(n - 1)
         IN  shorter \cup {Append(s, c) : s \in {t \in shorter : Len(t) = n - 1},
                                          c \in Alphabet}

\* a name of NameMax characters, and one that is one longer
FullName == [k \in 1..NameMax |-> "a"]
LongName == [k \in 1..(NameMax + 1) |-> "a"]

InputNames == NamesUpTo(MaxLen) \cup {FullName, LongName}

\* directory contents around the names the probe of filename looks at
DirsFor(filename) ==
    LET s == sanitizeFilename(filename)
    IN  SUBSET {n \in {s, newFilenameOf(s, 1), newFilenameOf(s, 2)} :
                    Len(n) <= NameMax}

CallSanitize(filename) ==
    /\ pc = "recv"
    /\ pc' = "sanitizeFilename"
    /\ event' = [id |-> <<>>, filename |-> filename]
    /\ finalFilename' = sanitizeFilename(filename)
    /\ dir' = {}
    /\ UNCHANGED <<state, locked, meta, CompleteUploads, sanitized, i, log, finalized,
                   nHandled, nRedelivered>>

CallGetUnique(d, filename) ==
    /\ pc = "recv"
    /\ pc' = "getUniqueFilename"
    /\ event' = [id |-> <<>>, filename |-> filename]
    /\ finalFilename' = getUniqueFilename(d, filename)
    /\ dir' = d
    /\ UNCHANGED <<state, locked, meta, CompleteUploads, sanitized, i, log, finalized,
                   nHandled, nRedelivered>>

NextFn ==
    \/ \E filename \in InputNames : CallSanitize(filename)
    \/ \E filename \in InputNames : \E d \in DirsFor(filename) :
           CallGetUnique(d, filename)

SpecFn == Init /\ [][NextFn]_vars

-----------------------------------------------------------------------------
(* the upload engine, as far as the handler sees it *)

\* metadata["filename"] values clients send; <<>> is an absent filename
FileNames ==
    { <<>>,
      <<"r", ".", "t">>,
      DataFile(<<"a">>),
      InfoFile(<<"b">>),
      LockFile(<<"a">>),
      LongName }

NamesOf(id) == {DataFile(id), InfoFile(id), LockFile(id)}

\* upload IDs are drawn at random when the upload is created: a new ID is
\* one that no client filename and no file of the directory names
IsFreshId(id, filename) ==
    /\ filename \notin NamesOf(id)
    /\ \A other \in Ids : meta[other] \notin NamesOf(id)
    /\ NamesOf(id) \cap dir = {}

\* a creation request: the file store writes the data and the metadata record
CreateUpload(id, filename) ==
    /\ state[id] = "absent"
    /\ IsFreshId(id, filename)
    /\ state' = [state EXCEPT ![id] = "InProgress"]
    /\ meta' = [meta EXCEPT ![id] = filename]
    /\ dir' = dir \cup {DataFile(id), InfoFile(id)}
    /\ UNCHANGED <<locked, CompleteUploads, pc, event, sanitized, i, finalFilename, log,
                   finalized, nHandled, nRedelivered>>

\* a request takes the upload's lock: the file locker creates the lock file
Lock(id) ==
    /\ state[id] \in {"InProgress", "Completed"}
    /\ id \notin locked
    /\ LockFile(id) \notin dir
    /\ locked' = locked \cup {id}
    /\ dir' = dir \cup {LockFile(id)}
    /\ UNCHANGED <<state, meta, CompleteUploads, pc, event, sanitized, i, finalFilename,
                   log, finalized, nHandled, nRedelivered>>

Unlock(id) ==
    /\ id \in locked
    /\ locked' = locked \ {id}
    /\ dir' = dir \ {LockFile(id)}
    /\ UNCHANGED <<state, meta, CompleteUploads, pc, event, sanitized, i, finalFilename,
                   log, finalized, nHandled, nRedelivered>>

\* the last chunk arrives: NotifyCompleteUploads sends the event
FinishUpload(id) ==
    /\ state[id] = "InProgress"
    /\ state' = [state EXCEPT ![id] = "Completed"]
    /\ CompleteUploads' = Append(CompleteUploads, [id |-> id, filename |-> meta[id]])
    /\ UNCHANGED <<dir, locked, meta, pc, event, sanitized, i, finalFilename, log,
                   finalized, nHandled, nRedelivered>>

\* a termination request removes the data and the metadata record
Terminate(id) ==
    /\ state[id] \in {"InProgress", "Completed"}
    /\ state' = [state EXCEPT ![id] = "Terminated"]
    /\ dir' = dir \ {DataFile(id), InfoFile(id)}
    /\ UNCHANGED <<locked, meta, CompleteUploads, pc, event, sanitized, i, finalFilename,
                   log, finalized, nHandled, nRedelivered>>

\* a completion event of a completed upload arrives a second time
Redeliver(id) ==
    /\ state[id] = "Completed"
    /\ nRedelivered < MaxRedeliver
    /\ nRedelivered' = nRedelivered + 1
    /\ CompleteUploads' = Append(CompleteUploads, [id |-> id, filename |-> meta[id]])
    /\ UNCHANGED <<dir, state, locked, meta, pc, event, sanitized, i, finalFilename, log,
                   finalized, nHandled>>

-----------------------------------------------------------------------------
(* handleCompletedUploads: the consumer goroutine *)

\* Receive that removes the artifact of an upload without filename
Receive_DropsUnnamed ==
    /\ pc = "recv"
    /\ CompleteUploads # <<>>
    /\ CompleteUploads' = Tail(CompleteUploads)
    /\ event' = Head(CompleteUploads)
    /\ IF Head(CompleteUploads).filename = <<>>
       THEN /\ log' = "no filename"
            /\ nHandled' = nHandled + 1
            /\ pc' = "recv"
            /\ dir' = dir \ {DataFile(Head(CompleteUploads).id)}
       ELSE /\ log' = "finished"
            /\ nHandled' = nHandled
            /\ pc' = "stat"
            /\ dir' = dir
    /\ UNCHANGED <<state, locked, meta, sanitized, i, finalFilename, finalized,
                   nRedelivered>>

\* lines 105-118: receive, and skip an upload without filename
Receive ==
    /\ pc = "recv"
    /\ CompleteUploads # <<>>
    /\ CompleteUploads' = Tail(CompleteUploads)
    /\ event' = Head(CompleteUploads)
    /\ IF Head(CompleteUploads).filename = <<>>
       THEN /\ log' = "no filename"
            /\ nHandled' = nHandled + 1
            /\ pc' = "recv"
       ELSE /\ log' = "finished"
            /\ nHandled' = nHandled
            /\ pc' = "stat"
    /\ UNCHANGED <<dir, state, locked, meta, sanitized, i, finalFilename, finalized,
                   nRedelivered>>

\* lines 80-90: the first existence check of getUniqueFilename
StatTarget ==
    /\ pc = "stat"
    /\ \E name \in {sanitizeFilename(event.filename)} :
           /\ sanitized' = name
           /\ IF IsNotExist(Stat(dir, name))
              THEN /\ finalFilename' = name
                   /\ i' = i
                   /\ pc' = "statOld"
              ELSE /\ finalFilename' = finalFilename
                   /\ i' = 1
                   /\ pc' = "probe"
    /\ UNCHANGED <<dir, state, locked, meta, CompleteUploads, event, log,
                   finalized, nHandled, nRedelivered>>

\* i++ of the loop.  Past MaxProbe the counter is no longer tracked exactly:
\* it alternates between two values that stand for all larger ones.
NextI(k) ==
    IF k < MaxProbe THEN k + 1
    ELSE IF k = MaxProbe THEN MaxProbe + 1
    ELSE MaxProbe

\* lines 92-99: one iteration of the loop
Probe ==
    /\ pc = "probe"
    /\ \E newFilename \in {newFilenameOf(sanitized, i)} :
           IF IsNotExist(Stat(dir, newFilename))
           THEN /\ finalFilename' = newFilename
                /\ i' = i
                /\ pc' = "statOld"
           ELSE /\ i < MaxProbe \/ Stat(dir, newFilename) = "ENAMETOOLONG"
                /\ finalFilename' = finalFilename
                /\ i' = NextI(i)
                /\ pc' = "probe"
    /\ UNCHANGED <<dir, state, locked, meta, CompleteUploads, event, sanitized, log,
                   finalized, nHandled, nRedelivered>>

\* lines 126-132: the artifact named by the upload ID must exist
StatOld ==
    /\ pc = "statOld"
    /\ IF Stat(dir, DataFile(event.id)) # "ok"
       THEN /\ log' = "not found"
            /\ nHandled' = nHandled + 1
            /\ pc' = "recv"
       ELSE /\ log' = log
            /\ nHandled' = nHandled
            /\ pc' = "rename"
    /\ UNCHANGED <<dir, state, locked, meta, CompleteUploads, event, sanitized, i,
                   finalFilename, finalized, nRedelivered>>

\* os.Rename returns an error (the source is gone, or any other reason):
\* the directory is as before
RenameFails ==
    /\ log' = "rename failed"
    /\ UNCHANGED <<dir, finalized>>

\* os.Rename moves the source onto the destination, replacing what is there
RenameSucceeds ==
    /\ DataFile(event.id) \in dir
    /\ dir' = (dir \ {DataFile(event.id)}) \cup {finalFilename}
    /\ finalized' = [finalized EXCEPT ![event.id] = Append(@, finalFilename)]
    /\ log' = "renamed"

\* lines 134-145
Rename ==
    /\ pc = "rename"
    /\ (RenameFails \/ RenameSucceeds)
    /\ nHandled' = nHandled + 1
    /\ pc' = "recv"
    /\ UNCHANGED <<state, locked, meta, CompleteUploads, event, sanitized, i,
                   finalFilename, nRedelivered>>

Consumer == Receive \/ StatTarget \/ Probe \/ StatOld \/ Rename

Engine ==
    \E id \in Ids :
        \/ \E filename \in FileNames : CreateUpload(id, filename)
        \/ Lock(id)
        \/ Unlock(id)
        \/ FinishUpload(id)
        \/ Terminate(id)
        \/ Redeliver(id)

Next == Engine \/ Consumer

Spec == Init /\ [][Next]_vars

\* Progress of the consumer is studied with uploads that are only created
\* and completed: every behaviour of this next-state relation is one of Next.
NextLive ==
    \/ \E id \in Ids : \E filename \in FileNames : CreateUpload(id, filename)
    \/ \E id \in Ids : FinishUpload(id)
    \/ Consumer

\* the Go scheduler runs the consumer goroutine whenever it can take a step
FairSpec == Init /\ [][NextLive]_vars /\ WF_vars(Consumer)

-----------------------------------------------------------------------------
(* what the claims speak of *)

UnsafeChars == {"/", "\\", ":", "*", "?", "\"", "<", ">", "|"}

HasDotDot(s) == \E k \in 1..(Len(s) - 1) : s[k] = "." /\ s[k + 1] = "."

SafeName(s) ==
    /\ s # <<>>
    /\ \A k \in 1..Len(s) : s[k] \notin UnsafeChars
    /\ ~HasDotDot(s)
    /\ s[1] \notin {" ", "."}
    /\ s[Len(s)] \notin {" ", "."}

OnlySpacesAndDots(s) == s # <<>> /\ \A k \in 1..Len(s) : s[k] \in {" ", "."}

\* the position of the last dot of s, 0 when it has none
LastDot(s) ==
    LET dots == {k \in 1..Len(s) : s[k] = "."}
    IN  IF dots = {} THEN 0 ELSE CHOOSE k \in dots : \A m \in dots : m <= k

\* base_n.ext, split at the last dot of s
Numbered(s, n) ==
    IF LastDot(s) = 0 THEN s \o <<"_">> \o Itoa(n)
    ELSE SubSeq(s, 1, LastDot(s) - 1) \o <<"_">> \o Itoa(n)
         \o SubSeq(s, LastDot(s), Len(s))

Returned == pc \in {"sanitizeFilename", "getUniqueFilename"} /\ finalFilename # NoReturn

\* completion events sent so far
Published ==
    nHandled + Len(CompleteUploads) + (IF pc = "recv" THEN 0 ELSE 1)

MaxEvents == Cardinality(Ids) + MaxRedeliver

-----------------------------------------------------------------------------
(* claims *)

\* C1: every name sanitizeFilename or getUniqueFilename returns is non-empty,
\* holds none of / \ : * ? " < > | and no "..", and neither starts nor ends
\* with a space or a dot.
C1_SanitizedNameIsSafe == Returned => SafeName(finalFilename)

\* C1 witness: "../a" was sanitized to "__a".
C1_Witness ==
    /\ pc = "sanitizeFilename"
    /\ event.filename = <<".", ".", "/", "a">>
    /\ finalFilename = <<"_", "_", "a">>

\* C2 as claimed: every input made only of spaces and dots yields the
\* default name.
C2_SpacesDotsYieldDefault ==
    (pc = "sanitizeFilename" /\ OnlySpacesAndDots(event.filename))
        => finalFilename = DefaultName

\* C2 amended: an input made only of spaces and dots, with no two dots in a
\* row, yields the default name; with two dots in a row the result holds an
\* underscore and is not the default name.
C2_SpacesSingleDotsYieldDefault ==
    (pc = "sanitizeFilename" /\ OnlySpacesAndDots(event.filename))
        => IF HasDotDot(event.filename)
           THEN finalFilename # DefaultName /\ "_" \in {finalFilename[k] : k \in 1..Len(finalFilename)}
           ELSE finalFilename = DefaultName

\* C2 witness: ". ." was sanitized to the default name.
C2_Witness ==
    /\ pc = "sanitizeFilename"
    /\ event.filename = <<".", " ", ".">>
    /\ finalFilename = DefaultName

\* C3: when getUniqueFilename returns, the result is the sanitized name S if
\* S is not in the directory, and otherwise base_n.ext for the smallest
\* n >= 1 whose name is not in the directory.
C3_CollisionResolution ==
    (pc = "getUniqueFilename" /\ finalFilename # NoReturn) =>
        LET S == sanitizeFilename(event.filename)
        IN  IF S \notin dir THEN finalFilename = S
            ELSE \E n \in 1..(Cardinality(dir) + 1) :
                    /\ finalFilename = Numbered(S, n)
                    /\ Numbered(S, n) \notin dir
                    /\ \A m \in 1..(n - 1) : Numbered(S, m) \in dir

\* C3 witness: with a.a and a_1.a present, a.a resolved to a_2.a.
C3_Witness ==
    /\ pc = "getUniqueFilename"
    /\ event.filename = <<"a", ".", "a">>
    /\ dir = {<<"a", ".", "a">>, <<"a", "_", "1", ".", "a">>}
    /\ finalFilename = <<"a", "_", "2", ".", "a">>

\* C4: once an upload has been renamed to its final name, its metadata
\* record is no longer in the directory.
C4_RecordDeletedAfterPromotion ==
    \A id \in Ids : finalized[id] # <<>> => InfoFile(id) \notin dir

\* C5: an upload ID whose metadata record can be read is one the engine
\* created: no finalized file is read back as an upload's record.
C5_FinalNamesApartFromUploads ==
    \A id \in Ids : InspectExists(dir, id) => state[id] # "absent"

\* C6: no upload is renamed to a final name more than once, whatever
\* completion events are consumed.
C6_PromotedAtMostOnce == \A id \in Ids : Len(finalized[id]) <= 1

\* C7: the destination of a rename is absent from the directory when the
\* rename happens.
C7_RenameNeverOverwrites ==
    [][(pc = "rename" /\ pc' = "recv" /\ log' = "renamed")
            => finalFilename \notin dir]_vars

\* C8: every step of the consumer other than a successful rename leaves the
\* directory and the upload records as they are, and a handling that ends
\* without a rename takes the consumer back to receiving.
C8_FailureChangesNothing ==
    [][((pc' # pc \/ i' # i \/ nHandled' # nHandled)
            /\ ~(nHandled' # nHandled /\ log' = "renamed"))
        => /\ dir' = dir
           /\ state' = state
           /\ meta' = meta
           /\ finalized' = finalized
           /\ (nHandled' # nHandled => pc' = "recv")]_vars

\* C8 witness: a rename failed and the consumer is receiving again.
C8_Witness == log = "rename failed" /\ pc = "recv" /\ nHandled > 0

\* C9: every completion event sent is eventually handled to the end.
C9_EveryEventHandled ==
    \A n \in 1..MaxEvents : (Published >= n) ~> (nHandled >= n)

\* C10: every call of getUniqueFilename returns.
C10_ProbeTerminates == (pc \in {"stat", "probe"}) ~> (pc = "statOld")

=============================================================================
